---- MODULE Spec2Model ----
(***************************************************************************)
(* Model of package jira (src/main.go): the constructor New, the transport *)
(* Jira.Request and the three operations GetIssue, GetProjectTitle and     *)
(* Comment built on it.                                                    *)
(*                                                                         *)
(* Go strings are sequences of one-character strings.  A response body is  *)
(* the JSON text the server sent, written as a tagged value (kind "text"   *)
(* is a body that is not JSON).  json.Unmarshal turns it into Go values    *)
(* (kinds nil, string, float64, slice, map).                               *)
(***************************************************************************)
EXTENDS Integers, Sequences, FiniteSets, TLC

VARIABLES client, pc, op, req, net, sent, resp, ret

vars == <<client, pc, op, req, net, sent, resp, ret>>

(* ---------------------------- bounds ----------------------------------- *)
MaxKeyLen == 3
MaxUrlLen == 4

(* ---------------------------- strings ---------------------------------- *)
RECURSIVE SeqsUpTo(_, _)
SeqsUpTo(S, n) ==
    IF n = 0 THEN {<<>>}
    ELSE LET shorter == SeqsUpTo(S, n - 1)
         IN  shorter \cup {Append(s, c) : s \in {t \in shorter : Len(t) = n - 1}, c \in S}

Contains(s, c) == \E i \in 1..Len(s) : s[i] = c

HasPrefix(s, p) == Len(s) >= Len(p) /\ SubSeq(s, 1, Len(p)) = p

\* index of the first occurrence of c in s, 0 when there is none (strings.Index)
Index(s, c) ==
    IF Contains(s, c) THEN CHOOSE i \in 1..Len(s) : s[i] = c /\ \A j \in 1..(i - 1) : s[j] # c
    ELSE 0

\* index of the last occurrence of c in s, 0 when there is none
LastIndex(s, c) ==
    IF Contains(s, c) THEN CHOOSE i \in 1..Len(s) : s[i] = c /\ \A j \in (i + 1)..Len(s) : s[j] # c
    ELSE 0

Tail0(s, i) == SubSeq(s, i, Len(s))

\* the lower-case form of one character of KeyChars
LowerChar(c) == IF c = "A" THEN "a" ELSE c

\* strings.ToLower
ToLower(s) == [i \in 1..Len(s) |-> LowerChar(s[i])]

\* strings.Split(s, "-"): every segment, in order; never empty
RECURSIVE Split(_)
Split(s) ==
    LET i == Index(s, "-")
    IN  IF i = 0 THEN <<s>>
        ELSE <<SubSeq(s, 1, i - 1)>> \o Split(Tail0(s, i + 1))

\* strings.Join(fields, ","), the result kept as a sequence of pieces
RECURSIVE Join(_)
Join(fields) ==
    IF Len(fields) = 0 THEN <<>>
    ELSE IF Len(fields) = 1 THEN <<fields[1]>>
    ELSE <<fields[1], ",">> \o Join(Tail(fields))

(* ---------------------------- errors ----------------------------------- *)
NoErr == [kind |-> "none"]

\* type Error struct
Error(code, status, message) ==
    [kind |-> "Error", StatusCode |-> code, Status |-> status, Message |-> message]

(* ---------------------------- JSON text -------------------------------- *)
JNull == [kind |-> "null"]
JNum == [kind |-> "number", n |-> 5]
JArr == [kind |-> "array"]
JStr(s) == [kind |-> "string", s |-> s]
JObj(m) == [kind |-> "object", m |-> m]
NotJson(t) == [kind |-> "text", t |-> t]
Absent == [kind |-> "absent"]

\* the object whose members are the entries of opts that are not Absent
Members(opts) == [k \in {k \in DOMAIN opts : opts[k] # Absent} |-> opts[k]]

KeyChars == {"A", "b", "-"}
KeyStrings == SeqsUpTo(KeyChars, MaxKeyLen)

SummaryOpts == {Absent, JStr(<<"F", "i", "x">>), JStr(<<>>), JNum, JNull}
FieldsObjects ==
    {JObj(Members([summary |-> s, status |-> o])) : s \in SummaryOpts, o \in {Absent, JStr(<<"o">>)}}
IdOpts == {Absent, JNum, JStr(<<"1">>)}
KeyOpts == {Absent, JNum} \cup {JStr(k) : k \in KeyStrings}
FieldsOpts == {Absent, JStr(<<"x">>)} \cup FieldsObjects
NameOpts == {Absent, JNum, JStr(<<"M", "y">>)}

Bodies ==
    {JObj(Members([id |-> i, key |-> k, fields |-> f, name |-> n])) :
        i \in IdOpts, k \in KeyOpts, f \in FieldsOpts, n \in NameOpts}
    \cup {JNull, JNum, JArr, JStr(<<"s">>), NotJson(<<>>), NotJson(<<"server exploded">>)}

(* ---------------------------- Go values -------------------------------- *)
GNil == [kind |-> "nil"]
NilMap == [kind |-> "nilmap"]

\* what json.Unmarshal stores into an interface{} for JSON value j
RECURSIVE GoValue(_)
GoValue(j) ==
    CASE j.kind = "null" -> GNil
      [] j.kind = "string" -> [kind |-> "string", s |-> j.s]
      [] j.kind = "number" -> [kind |-> "float64", n |-> j.n]
      [] j.kind = "array" -> [kind |-> "slice"]
      [] j.kind = "object" -> [kind |-> "map", m |-> [k \in DOMAIN j.m |-> GoValue(j.m[k])]]

\* json.Unmarshal(data, &rawData) with rawData a map[string]interface{}
UnmarshalMap(data) ==
    CASE data.kind = "text" -> [err |-> [kind |-> "SyntaxError"], val |-> NilMap]
      [] data.kind = "null" -> [err |-> NoErr, val |-> NilMap]
      [] data.kind = "object" -> [err |-> NoErr, val |-> GoValue(data)]
      [] OTHER -> [err |-> [kind |-> "UnmarshalTypeError"], val |-> NilMap]

\* json.Unmarshal(data, &rawData) with rawData an interface{}
UnmarshalAny(data) ==
    IF data.kind = "text" THEN [err |-> [kind |-> "SyntaxError"], val |-> GNil]
    ELSE [err |-> NoErr, val |-> GoValue(data)]

\* m[k] on a Go map: the zero value (nil interface) when k is missing or m is nil
Lookup(m, k) ==
    IF m.kind = "map" /\ k \in DOMAIN m.m THEN m.m[k] ELSE GNil

\* the panic of a failed type assertion x.(T): a runtime.Error, which is an error
TypeAssertionPanic == [kind |-> "TypeAssertionError", isError |-> TRUE]

\* the deferred func() { if r := recover(); r != nil { err = r.(error) } }():
\* a panic value that is an error becomes the returned err; r.(error) on any
\* other value panics again, inside the deferred function, and is not caught
RecoverNone(p) == [err |-> NoErr, fault |-> TRUE]

Recover(p) ==
    IF p.isError THEN [err |-> [kind |-> "recovered", panic |-> p.kind], fault |-> FALSE]
    ELSE [err |-> NoErr, fault |-> TRUE]

(* ---------------------------- url.Parse -------------------------------- *)
\* URL strings are over letters, ':' and '/'
UrlChars == {"a", ":", "/"}
UrlStrings == SeqsUpTo(UrlChars, MaxUrlLen)

NoUrl == [kind |-> "nil"]
Url(scheme, opaque, host, path) ==
    [kind |-> "URL", Scheme |-> scheme, Opaque |-> opaque, Host |-> host, Path |-> path]

\* url.getScheme: the letters before the first ':' when nothing but letters
\* precedes it; a leading ':' is the error "missing protocol scheme"
getScheme(rawURL) ==
    LET stops == {i \in 1..Len(rawURL) : rawURL[i] # "a"}
        i == IF stops = {} THEN 0 ELSE CHOOSE k \in stops : \A j \in stops : k <= j
    IN  IF i = 0 \/ rawURL[i] # ":" THEN [err |-> NoErr, scheme |-> <<>>, rest |-> rawURL]
        ELSE IF i = 1 THEN [err |-> [kind |-> "missing protocol scheme"], scheme |-> <<>>, rest |-> rawURL]
        ELSE [err |-> NoErr, scheme |-> SubSeq(rawURL, 1, i - 1), rest |-> Tail0(rawURL, i + 1)]

\* url.validOptionalPort applied to the text from the last ':' of the host on
validOptionalPort(colonPort) == Len(colonPort) <= 1

\* url.parseHost
parseHost(host) ==
    LET i == LastIndex(host, ":")
    IN  IF i # 0 /\ ~validOptionalPort(Tail0(host, i)) THEN [kind |-> "invalid port"] ELSE NoErr

\* url.Parse (through url.parse with viaRequest = false)
Parse(rawURL) ==
    LET g == getScheme(rawURL)
        rest == g.rest
        slash == Index(rest, "/")
        segment == IF slash = 0 THEN rest ELSE SubSeq(rest, 1, slash - 1)
        afterSlashes == Tail0(rest, 3)
        authEnd == Index(afterSlashes, "/")
        authority == IF authEnd = 0 THEN afterSlashes ELSE SubSeq(afterSlashes, 1, authEnd - 1)
        pathAfter == IF authEnd = 0 THEN <<>> ELSE Tail0(afterSlashes, authEnd)
    IN  IF g.err # NoErr THEN [err |-> g.err, url |-> NoUrl]
        ELSE IF ~HasPrefix(rest, <<"/">>) /\ g.scheme # <<>>
             THEN [err |-> NoErr, url |-> Url(g.scheme, rest, <<>>, <<>>)]
        ELSE IF ~HasPrefix(rest, <<"/">>) /\ Contains(segment, ":")
             THEN [err |-> [kind |-> "first path segment in URL cannot contain colon"], url |-> NoUrl]
        ELSE IF (g.scheme # <<>> \/ ~HasPrefix(rest, <<"/", "/", "/">>)) /\ HasPrefix(rest, <<"/", "/">>)
             THEN IF parseHost(authority) # NoErr
                  THEN [err |-> parseHost(authority), url |-> NoUrl]
                  ELSE [err |-> NoErr, url |-> Url(g.scheme, <<>>, authority, pathAfter)]
        ELSE [err |-> NoErr, url |-> Url(g.scheme, <<>>, <<>>, rest)]

\* (*URL).IsAbs
IsAbs(u) == u.Scheme # <<>>

(* ---------------------------- New -------------------------------------- *)
NoClient == [kind |-> "nil"]

NewAbsOnly(jiraUrl) ==
    LET p == Parse(jiraUrl)
    IN  IF p.err # NoErr THEN [jira |-> NoClient, err |-> p.err]
        ELSE IF ~IsAbs(p.url) THEN [jira |-> NoClient, err |-> [kind |-> "not absolute"]]
        ELSE [jira |-> [kind |-> "Jira", baseUrl |-> p.url], err |-> NoErr]

\* func New: the client holds whatever url.Parse accepted
NewF(jiraUrl) ==
    LET p == Parse(jiraUrl)
    IN  IF p.err # NoErr THEN [jira |-> NoClient, err |-> p.err]
        ELSE [jira |-> [kind |-> "Jira", baseUrl |-> p.url], err |-> NoErr]

(* ---------------------------- Request ---------------------------------- *)
\* What the network does to one call: http.NewRequest may reject the method
\* or URL (fail = "newRequest"), the send may fail (fail = "do"), the body
\* read may fail after the response head arrived (fail = "read"), or the
\* response arrives whole (fail = "none").
StatusCodes == {200, 201, 400, 401, 403, 404, 500, 503}
StatusText(code) ==
    CASE code = 200 -> "200 OK"
      [] code = 201 -> "201 Created"
      [] code = 400 -> "400 Bad Request"
      [] code = 401 -> "401 Unauthorized"
      [] code = 403 -> "403 Forbidden"
      [] code = 404 -> "404 Not Found"
      [] code = 500 -> "500 Internal Server Error"
      [] code = 503 -> "503 Service Unavailable"

NoResp == [kind |-> "nil"]
NoBytes == [kind |-> "nilbytes"]
Response(code, body) ==
    [kind |-> "Response", StatusCode |-> code, Status |-> StatusText(code), Body |-> body]
Responses == {Response(c, b) : c \in StatusCodes, b \in Bodies}

Envs ==
    {[fail |-> f, resp |-> NoResp] : f \in {"newRequest", "do"}}
    \cup {[fail |-> "read", resp |-> Response(c, NoBytes)] : c \in {200, 404}}
    \cup {[fail |-> "none", resp |-> r] : r \in Responses}

\* the error of jira.res.Do or ioutil.ReadAll, handed on as it is
TransportError(stage) == [kind |-> "transport", stage |-> stage]

DoRetry(env) ==
    IF env.fail = "do" THEN [err |-> TransportError("do"), resp |-> NoResp, sent |-> 2]
    ELSE [err |-> NoErr, resp |-> env.resp, sent |-> 1]

\* resp, err := jira.res.Do(req): one send
Do(env) ==
    IF env.fail = "do" THEN [err |-> TransportError("do"), resp |-> NoResp, sent |-> 1]
    ELSE [err |-> NoErr, resp |-> env.resp, sent |-> 1]

\* the text "Not Found"; a message is a text, as a body is
NotFoundText == NotJson(<<"Not Found">>)

NotFoundErrorBody(r) == Error(r.StatusCode, r.Status, r.Body)

\* Error{StatusCode: resp.StatusCode, Status: resp.Status, Message: "Not Found"}
NotFoundError(r) == Error(r.StatusCode, r.Status, NotFoundText)

\* Error{StatusCode: resp.StatusCode, Status: resp.Status, Message: string(data)}
ServerError(r, data) == Error(r.StatusCode, r.Status, data)

IsServerErrorAbove(code) == code > 500
IsServerErrorFrom400(code) == code >= 400

\* resp.StatusCode >= 500
IsServerError(code) == code >= 500

\* the classification of a response whose body data was read
Classify(r, data) ==
    IF r.StatusCode = 404 THEN [data |-> NoBytes, err |-> NotFoundError(r)]
    ELSE IF IsServerError(r.StatusCode) THEN [data |-> NoBytes, err |-> ServerError(r, data)]
    ELSE [data |-> data, err |-> NoErr]

\* func (jira *Jira) Request: [data, err] returned, resp the response received
\* (NoResp when none was), sent the number of sends
RequestF(env) ==
    IF env.fail = "newRequest"
    THEN [data |-> NoBytes, err |-> [kind |-> "newRequest"], resp |-> NoResp, sent |-> 0]
    ELSE LET d == Do(env)
         IN  IF d.err # NoErr
             THEN [data |-> NoBytes, err |-> d.err, resp |-> NoResp, sent |-> d.sent]
             ELSE IF env.fail = "read"
             THEN [data |-> NoBytes, err |-> TransportError("read"), resp |-> d.resp, sent |-> d.sent]
             ELSE LET c == Classify(d.resp, d.resp.Body)
                  IN  [data |-> c.data, err |-> c.err, resp |-> d.resp, sent |-> d.sent]

(* ---------------------------- GetIssue --------------------------------- *)
NilIssue == [kind |-> "nil"]
Issue(id, key, summary, project, data) ==
    [kind |-> "Issue", Id |-> id, Key |-> key, Summary |-> summary, Project |-> project, Data |-> data]

\* what an operation hands back: the results; fault = TRUE when a panic left it
\* uncaught; decoded = TRUE when json.Unmarshal was reached
Ret(issue, title, data, err, fault, decoded) ==
    [issue |-> issue, title |-> title, data |-> data, err |-> err, fault |-> fault,
     decoded |-> decoded]

ProjectOfLast(key) == ToLower(Split(key)[Len(Split(key))])

\* tmp := strings.Split(issue.Key, "-"); issue.Project = strings.ToLower(tmp[0])
ProjectOf(key) == ToLower(Split(key)[1])

SummaryOfNever(data) == <<>>

\* if summary, ok := issue.Data["summary"].(string); ok { issue.Summary = summary }
SummaryOf(data) ==
    LET s == Lookup(data, "summary")
    IN  IF s.kind = "string" THEN s.s ELSE <<>>

DataOfRaw(rawData) == rawData

\* rawData["fields"], asserted to be a map[string]interface{} by the caller
DataOf(rawData) == Lookup(rawData, "fields")

\* GetIssue from the unmarshalled rawData on (lines 84-96)
DecodeIssue(rawData) ==
    LET id == Lookup(rawData, "id")
        key == Lookup(rawData, "key")
        fields == DataOf(rawData)
    IN  IF id.kind # "string" \/ key.kind # "string"
        THEN LET rc == Recover(TypeAssertionPanic)
             IN  Ret(NilIssue, <<>>, NoBytes, rc.err, rc.fault, TRUE)
        ELSE IF fields.kind # "map"
        THEN LET rc == Recover(TypeAssertionPanic)
             IN  Ret(Issue(id.s, key.s, <<>>, ProjectOf(key.s), NilMap), <<>>, NoBytes, rc.err, rc.fault, TRUE)
        ELSE Ret(Issue(id.s, key.s, SummaryOf(fields), ProjectOf(key.s), fields), <<>>, NoBytes, NoErr, FALSE, TRUE)

\* func (jira *Jira) GetIssue, given what Request returned
GetIssueF(r) ==
    IF r.err # NoErr THEN Ret(NilIssue, <<>>, NoBytes, r.err, FALSE, FALSE)
    ELSE LET u == UnmarshalMap(r.data)
         IN  IF u.err # NoErr THEN Ret(NilIssue, <<>>, NoBytes, u.err, FALSE, TRUE)
             ELSE DecodeIssue(u.val)

(* ---------------------------- GetProjectTitle -------------------------- *)
\* func (jira *Jira) GetProjectTitle, given what Request returned
GetProjectTitleF(r) ==
    IF r.err # NoErr THEN Ret(NilIssue, <<>>, NoBytes, r.err, FALSE, FALSE)
    ELSE LET u == UnmarshalAny(r.data)
             name == Lookup(u.val, "name")
         IN  IF u.err # NoErr THEN Ret(NilIssue, <<>>, NoBytes, u.err, FALSE, TRUE)
             ELSE IF u.val.kind # "map" \/ name.kind # "string"
             THEN LET rc == Recover(TypeAssertionPanic)
                  IN  Ret(NilIssue, <<>>, NoBytes, rc.err, rc.fault, TRUE)
             ELSE Ret(NilIssue, name.s, NoBytes, NoErr, FALSE, TRUE)

(* ---------------------------- Comment ---------------------------------- *)
\* json.Marshal(comment{Data: msg}): the object {"body": msg}
MarshalComment(msg) == JObj([k \in {"body"} |-> JStr(msg)])

\* func (jira *Jira) Comment, given what Request returned
CommentF(r) == Ret(NilIssue, <<>>, NoBytes, r.err, FALSE, FALSE)

(* ---------------------------- the state machine ------------------------ *)
IssueKeys == {"ABC-123", "X"}
FieldLists == {<<>>, <<"summary", "status">>}
Messages == {<<"h", "i">>, <<>>}
NoReq == [kind |-> "nil"]
Req(method, path, body) == [kind |-> "Request", method |-> method, path |-> path, body |-> body]
NoRet == [kind |-> "nil"]

\* the client every request is made with: New("a://a", ...)
BaseUrl == <<"a", ":", "/", "/", "a">>

Idle(c) ==
    /\ client = c
    /\ pc = "idle"
    /\ op = "none"
    /\ req = NoReq
    /\ net = "none"
    /\ sent = 0
    /\ resp = NoResp
    /\ ret = NoRet

Init == Idle(NewF(BaseUrl).jira)

InitNew == Idle(NoClient)

\* one whole call of an operation that goes through Request
Call(name, request, env, r, result) ==
    /\ pc = "idle"
    /\ client # NoClient
    /\ pc' = "returned"
    /\ op' = name
    /\ req' = request
    /\ net' = env.fail
    /\ sent' = r.sent
    /\ resp' = r.resp
    /\ ret' = result
    /\ UNCHANGED client

New(jiraUrl) ==
    /\ pc = "idle"
    /\ client = NoClient
    /\ pc' = "returned"
    /\ op' = "New"
    /\ req' = [kind |-> "New", jiraUrl |-> jiraUrl]
    /\ client' = NewF(jiraUrl).jira
    /\ ret' = Ret(NilIssue, <<>>, NoBytes, NewF(jiraUrl).err, FALSE, FALSE)
    /\ UNCHANGED <<net, sent, resp>>

Request(method, path, body, env) ==
    LET r == RequestF(env)
    IN  Call("Request", Req(method, path, body), env, r, Ret(NilIssue, <<>>, r.data, r.err, FALSE, FALSE))

GetIssue(key, fields, env) ==
    LET r == RequestF(env)
    IN  Call("GetIssue", Req("GET", <<"issue/", key, "/?fields=">> \o Join(fields), NoBytes),
             env, r, GetIssueF(r))

GetProjectTitle(key, env) ==
    LET r == RequestF(env)
    IN  Call("GetProjectTitle", Req("GET", <<"project/", key>>, NoBytes), env, r,
             GetProjectTitleF(r))

Comment(issue, msg, env) ==
    LET r == RequestF(env)
    IN  Call("Comment", Req("POST", <<"issue/", issue, "/comment">>, MarshalComment(msg)),
             env, r, CommentF(r))

\* the caller takes the result and the client is ready for the next call
Return ==
    /\ pc = "returned"
    /\ op # "New"
    /\ pc' = "idle"
    /\ op' = "none"
    /\ req' = NoReq
    /\ net' = "none"
    /\ sent' = 0
    /\ resp' = NoResp
    /\ ret' = NoRet
    /\ UNCHANGED client

\* an operation starts only when the caller holds no unread result
Next ==
    \/ pc = "idle" /\ \E env \in Envs : Request("PUT", <<"issue/", "X">>, NoBytes, env)
    \/ pc = "idle" /\ \E key \in IssueKeys, fields \in FieldLists, env \in Envs : GetIssue(key, fields, env)
    \/ pc = "idle" /\ \E key \in IssueKeys, env \in Envs : GetProjectTitle(key, env)
    \/ pc = "idle" /\ \E msg \in Messages, env \in Envs : Comment("X", msg, env)
    \/ Return

Spec == Init /\ [][Next]_vars

NextNew == pc = "idle" /\ \E jiraUrl \in UrlStrings : New(jiraUrl)

SpecNew == InitNew /\ [][NextNew]_vars

(* ---------------------------- properties ------------------------------- *)
Done == pc = "returned"
ViaRequest == op \in {"Request", "GetIssue", "GetProjectTitle", "Comment"}
\* a response arrived and its body was read to the end
BodyRead == Done /\ ViaRequest /\ net = "none"
IsObject(j) == j.kind = "object"
HasString(j, k) == IsObject(j) /\ k \in DOMAIN j.m /\ j.m[k].kind = "string"
\* the body is an object with a string id, a string key and an object fields
IssueShaped(j) ==
    /\ HasString(j, "id")
    /\ HasString(j, "key")
    /\ "fields" \in DOMAIN j.m
    /\ IsObject(j.m["fields"])
\* the part of key before its first '-', the whole key when it has none
PrefixOf(key) ==
    IF \E i \in 1..Len(key) : key[i] = "-"
    THEN LET d == CHOOSE i \in 1..Len(key) : key[i] = "-" /\ \A j \in 1..(i - 1) : key[j] # "-"
         IN  [i \in 1..(d - 1) |-> key[i]]
    ELSE key

\* C1: whenever a request got a response with status 404 and read its body, the
\* call returns the Error {404, the response's status line, "Not Found"} whatever
\* the body was, and returns no bytes, no issue and no title.
C1_NotFound ==
    (BodyRead /\ resp.StatusCode = 404) =>
        /\ ret.err = [kind |-> "Error", StatusCode |-> 404, Status |-> resp.Status,
                      Message |-> NotJson(<<"Not Found">>)]
        /\ ret.data = NoBytes
        /\ ret.issue = NilIssue
        /\ ret.title = <<>>

C1_Witness ==
    /\ BodyRead
    /\ op = "GetIssue"
    /\ resp.StatusCode = 404
    /\ IssueShaped(resp.Body)
    /\ ret.err.kind = "Error"

\* C2: whenever a request got a response with status >= 500 and read its body,
\* the call returns the Error {that status code, the status line, the raw body
\* text}, and returns no bytes.
C2_ServerError ==
    (BodyRead /\ resp.StatusCode >= 500) =>
        /\ ret.err = [kind |-> "Error", StatusCode |-> resp.StatusCode, Status |-> resp.Status,
                      Message |-> resp.Body]
        /\ ret.data = NoBytes
        /\ ret.issue = NilIssue

C2_Witness ==
    /\ BodyRead
    /\ resp.StatusCode = 500
    /\ resp.Body = NotJson(<<"server exploded">>)
    /\ ret.err.kind = "Error"
    /\ ret.err.Message = NotJson(<<"server exploded">>)

\* C3: for a response whose status is neither 404 nor >= 500 and whose body was
\* read, Request returns the body bytes unchanged and no error, JSON or not, and
\* Comment returns no error.
C3_PassThrough ==
    (BodyRead /\ resp.StatusCode # 404 /\ resp.StatusCode < 500) =>
        /\ op = "Request" => (ret.data = resp.Body /\ ret.err = NoErr)
        /\ op = "Comment" => ret.err = NoErr

C3_Witness ==
    /\ BodyRead
    /\ op = "Request"
    /\ resp.StatusCode = 403
    /\ resp.Body.kind = "text"
    /\ ret.data = resp.Body
    /\ ret.err = NoErr

\* C4: GetIssue and GetProjectTitle never end in an uncaught fault, and when the
\* body handed to the decoder is not JSON, not an object, or lacks or mistypes a
\* required field, they return a non-nil error.
C4_NoFault ==
    (Done /\ op \in {"GetIssue", "GetProjectTitle"}) =>
        /\ ~ret.fault
        /\ (ret.decoded /\ op = "GetIssue" /\ ~IssueShaped(resp.Body)) => ret.err # NoErr
        /\ (ret.decoded /\ op = "GetProjectTitle" /\ ~HasString(resp.Body, "name")) => ret.err # NoErr

C4_Witness ==
    /\ Done
    /\ op = "GetIssue"
    /\ ret.decoded
    /\ HasString(resp.Body, "id")
    /\ HasString(resp.Body, "key")
    /\ "fields" \notin DOMAIN resp.Body.m
    /\ ret.err.kind = "recovered"
    /\ ~ret.fault

\* C5: every Issue GetIssue returns has Project equal to the lower-cased part of
\* Key before its first '-', the whole Key lower-cased when Key has no '-'.
C5_Project ==
    (Done /\ op = "GetIssue" /\ ret.issue # NilIssue) =>
        /\ ret.issue.Project = [i \in 1..Len(PrefixOf(ret.issue.Key)) |->
                                   LowerChar(PrefixOf(ret.issue.Key)[i])]
        /\ \A i \in 1..Len(ret.issue.Project) : ret.issue.Project[i] # "A"

C5_Witness ==
    /\ Done
    /\ op = "GetIssue"
    /\ ret.err = NoErr
    /\ ret.issue # NilIssue
    /\ ret.issue.Key = <<"A", "-", "b">>
    /\ ret.issue.Project = <<"a">>

\* C6 as stated: in every Issue returned without error, a summary entry of Data,
\* whatever its (non-null) value, equals the typed Summary.
C6_SummaryEqual ==
    (/\ Done
     /\ op = "GetIssue"
     /\ ret.err = NoErr
     /\ "summary" \in DOMAIN ret.issue.Data.m
     /\ ret.issue.Data.m["summary"] # GNil) =>
        ret.issue.Data.m["summary"] = [kind |-> "string", s |-> ret.issue.Summary]

\* C6 amended: in every Issue returned without error, a summary entry of Data
\* that is a string equals the typed Summary; when the entry is absent or is
\* not a string, Summary is the empty string.
C6_SummaryString ==
    (Done /\ op = "GetIssue" /\ ret.err = NoErr) =>
        IF "summary" \in DOMAIN ret.issue.Data.m /\ ret.issue.Data.m["summary"].kind = "string"
        THEN ret.issue.Summary = ret.issue.Data.m["summary"].s
        ELSE ret.issue.Summary = <<>>

C6_Witness ==
    /\ Done
    /\ op = "GetIssue"
    /\ ret.err = NoErr
    /\ "summary" \in DOMAIN ret.issue.Data.m
    /\ ret.issue.Data.m["summary"].kind = "float64"
    /\ ret.issue.Summary = <<>>

\* C7: when the body handed to GetIssue's decoder is an object with a string id,
\* a string key and an object fields, GetIssue returns no error and an Issue
\* with that Id, that Key and Data the fields object; Summary is empty when
\* fields has no summary and equals summary when that is a string.
C7_Decoded ==
    (Done /\ op = "GetIssue" /\ ret.decoded /\ IssueShaped(resp.Body)) =>
        /\ ret.err = NoErr
        /\ ~ret.fault
        /\ ret.issue # NilIssue
        /\ ret.issue.Id = resp.Body.m["id"].s
        /\ ret.issue.Key = resp.Body.m["key"].s
        /\ ret.issue.Data = GoValue(resp.Body.m["fields"])
        /\ "summary" \notin DOMAIN resp.Body.m["fields"].m => ret.issue.Summary = <<>>
        /\ HasString(resp.Body.m["fields"], "summary") =>
               ret.issue.Summary = resp.Body.m["fields"].m["summary"].s

C7_Witness ==
    /\ Done
    /\ op = "GetIssue"
    /\ ret.decoded
    /\ IssueShaped(resp.Body)
    /\ HasString(resp.Body.m["fields"], "summary")
    /\ ret.issue # NilIssue
    /\ ret.issue.Summary = <<"F", "i", "x">>
    /\ ret.issue.Id = <<"1">>

\* C8 as stated: every client that exists holds an absolute base URL.
C8_AbsoluteOnly ==
    (op = "New" /\ client # NoClient) => IsAbs(client.baseUrl)

Colons(u) == {i \in 1..Len(u) : u[i] = ":"}

\* C8 amended: New returns an error and no client for every string url.Parse
\* rejects, and a client and no error for every other string; a string without
\* ':' (the empty string, a relative path) is accepted and gives a client whose
\* base URL is not absolute.
C8_ParseableOnly ==
    (Done /\ op = "New") =>
        /\ (ret.err # NoErr) <=> (client = NoClient)
        /\ Parse(req.jiraUrl).err # NoErr => client = NoClient
        /\ Colons(req.jiraUrl) = {} => (client # NoClient /\ ~IsAbs(client.baseUrl))
        /\ (Colons(req.jiraUrl) # {} /\ \A i \in Colons(req.jiraUrl) : i > 1 /\ \A j \in 1..(i - 1) : req.jiraUrl[j] = "a")
               => (client # NoClient /\ IsAbs(client.baseUrl))

C8_Witness ==
    /\ Done
    /\ op = "New"
    /\ req.jiraUrl = <<"/", "a">>
    /\ client # NoClient
    /\ ~IsAbs(client.baseUrl)

\* C9: a call sends at most one HTTP request, exactly one unless the request
\* could not be constructed, and when the send or the body read fails it
\* returns that transport error as it is, not an Error, having run no decoder.
C9_OneSend ==
    (Done /\ ViaRequest) =>
        /\ sent <= 1
        /\ (sent = 1) <=> (net # "newRequest")
        /\ net \in {"do", "read"} =>
               /\ ret.err = [kind |-> "transport", stage |-> net]
               /\ ~ret.decoded
               /\ ret.issue = NilIssue
               /\ ret.data = NoBytes

C9_Witness ==
    /\ Done
    /\ op = "GetIssue"
    /\ net = "do"
    /\ sent = 1
    /\ ret.err.kind = "transport"

\* C10: GetIssue returns an Issue or an error, never both: whenever the returned
\* error is non-nil the returned Issue is nil.
C10_IssueOrError ==
    (Done /\ op = "GetIssue" /\ ret.err # NoErr) => ret.issue = NilIssue

====
